---- MODULE Spec2Model ----
(***************************************************************************)
(* The Material Mapper page (src/src/app/dashboard/tools/material-mapper/  *)
(* page.tsx) and the BipartiteGraph component (src/src/components/ui/      *)
(* BipartiteGraph.tsx) as a state machine.                                 *)
(*                                                                         *)
(* Text is a sequence of one-character strings, so that a response body    *)
(* can be cut anywhere, names can be ordered by code unit as               *)
(* Array.prototype.sort() orders them, and template strings are            *)
(* concatenations.  A nullable value is None or Some(v).                   *)
(***************************************************************************)
EXTENDS Integers, Sequences, FiniteSets, TLC

VARIABLES
    page,           \* the useState cells of MaterialMapperPage
    bipartiteData,  \* the useMemo value of MaterialMapperPage
    hoveredLeftId,  \* useState cell of BipartiteGraph
    hoveredRightId, \* useState cell of BipartiteGraph
    runs,           \* the invocations of handleSubmit: position and locals
    requests,       \* number of fetch() calls issued so far
    lastSubmit,     \* what the latest submit event of the form did
    appliedBy,      \* the invocations whose events reached the snapshot since the last reset
    server,         \* what the backend of this session sends, and how it flushes
    clicked         \* the right item of the graph that took the latest click

vars == <<page, bipartiteData, hoveredLeftId, hoveredRightId, runs, requests,
          lastSubmit, appliedBy, server, clicked>>

-----------------------------------------------------------------------------
(* Bounds *)

\* Lines the backend writes to one response body.
MaxLines == 2
\* Accepted submissions (fetch calls) in one behaviour.
MaxRuns == 2
\* Matched flows handed to the view builder in SpecView.
MaxBmfs == 2
\* Connection records handed to the view builder in SpecView.
MaxConns == 2
\* Edges handed to the BipartiteGraph component in SpecGraph.
MaxEdges == 2

-----------------------------------------------------------------------------
(* Values *)

None == <<>>
Some(x) == <<x>>

\* A number-typed field that holds undefined.
Undefined == -1

\* An empty Record<string, ...>.
EmptyMap == <<>>

\* UTF-16 code units of the characters the names of this model use.
CharCode(c) ==
    CASE c = "-" -> 45
      [] c = "A" -> 65
      [] c = "B" -> 66
      [] c = "a" -> 97
      [] c = "b" -> 98
      [] c = "c" -> 99
      [] c = "s" -> 115
      [] c = "t" -> 116

\* String comparison of Array.prototype.sort() without a comparator: by code unit,
\* a proper prefix first.
RECURSIVE LexLess(_, _)
LexLess(s, t) ==
    IF t = <<>> THEN FALSE
    ELSE IF s = <<>> THEN TRUE
    ELSE IF CharCode(Head(s)) # CharCode(Head(t))
         THEN CharCode(Head(s)) < CharCode(Head(t))
    ELSE LexLess(Tail(s), Tail(t))

\* x put into the sorted sequence seq, after the elements equal to it.
RECURSIVE InsertSorted(_, _)
InsertSorted(x, seq) ==
    IF seq = <<>> THEN <<x>>
    ELSE IF LexLess(x, Head(seq)) THEN <<x>> \o seq
    ELSE <<Head(seq)>> \o InsertSorted(x, Tail(seq))

\* Array.prototype.sort() on an array of strings.
RECURSIVE sort(_)
sort(seq) ==
    IF seq = <<>> THEN <<>>
    ELSE InsertSorted(seq[Len(seq)], sort(SubSeq(seq, 1, Len(seq) - 1)))

Range(seq) == {seq[i] : i \in 1..Len(seq)}

\* [...new Set(seq)]: the distinct elements in order of first occurrence.
RECURSIVE distinct(_)
distinct(seq) ==
    IF seq = <<>> THEN <<>>
    ELSE LET init == distinct(SubSeq(seq, 1, Len(seq) - 1))
             last == seq[Len(seq)]
         IN  IF last \in Range(init) THEN init ELSE Append(init, last)

\* event.f as string || d: the field, or d when it is absent or the empty string.
stringOr(event, f, d) ==
    IF f \in DOMAIN event /\ event[f] # "" THEN event[f] ELSE d

\* event.f as number || d: the field, or d when it is absent or 0.
numberOr(event, f, d) ==
    IF f \in DOMAIN event /\ event[f] # 0 THEN event[f] ELSE d

\* event.f as number: the field, or undefined.
number(event, f) ==
    IF f \in DOMAIN event THEN event[f] ELSE Undefined

\* event.f as T[] || []: the field, or the empty array when it is absent.
arrayOr(event, f) ==
    IF f \in DOMAIN event THEN event[f] ELSE <<>>

\* event.f as Record<...> || {}: the field, or the empty record when it is absent.
recordOr(event, f) ==
    IF f \in DOMAIN event THEN event[f] ELSE EmptyMap

\* `${n}` for a number-typed value.
str(n) == IF n = Undefined THEN "undefined" ELSE ToString(n)

-----------------------------------------------------------------------------
(* MaterialMapperPage: state and event handling *)

\* ProgressState; an optional field that is missing holds Undefined.
Progress(stage, message, currentChunk, totalChunks, elapsedMs) ==
    [stage |-> stage, message |-> message, currentChunk |-> currentChunk,
     totalChunks |-> totalChunks, elapsedMs |-> elapsedMs]

\* The useState initial values.
InitialPage ==
    [strategy |-> <<>>,
     isLoading |-> FALSE,
     result |-> None,
     error |-> None,
     progress |-> Progress("idle", "", Undefined, Undefined, Undefined),
     extractedMaterials |-> <<>>,
     matchedBmfs |-> <<>>,
     ecosystemConnections |-> <<>>,
     ecosystemServices |-> <<>>,
     ecosystemServiceDetails |-> EmptyMap,
     selectedEcosystemService |-> None]

\* ResetPage as it would be without setError(null).
ResetPage_keepsError(s) ==
    [s EXCEPT !.isLoading = TRUE,
              !.result = None,
              !.extractedMaterials = <<>>,
              !.matchedBmfs = <<>>,
              !.ecosystemConnections = <<>>,
              !.ecosystemServices = <<>>,
              !.ecosystemServiceDetails = EmptyMap,
              !.selectedEcosystemService = None,
              !.progress = Progress("idle", "Connecting...", Undefined, Undefined, Undefined)]

\* The "Reset state" block of handleSubmit.
ResetPage(s) ==
    [s EXCEPT !.isLoading = TRUE,
              !.error = None,
              !.result = None,
              !.extractedMaterials = <<>>,
              !.matchedBmfs = <<>>,
              !.ecosystemConnections = <<>>,
              !.ecosystemServices = <<>>,
              !.ecosystemServiceDetails = EmptyMap,
              !.selectedEcosystemService = None,
              !.progress = Progress("idle", "Connecting...", Undefined, Undefined, Undefined)]

\* AppendNewBmfs as it would be if the chunk's flows replaced the list.
AppendNewBmfs_replaces(prev, chunkBmfs) == chunkBmfs

\* The updater passed to setMatchedBmfs: the chunk's flows whose name prev does not hold.
AppendNewBmfs(prev, chunkBmfs) ==
    LET existingNames == {prev[i].bmf_name : i \in 1..Len(prev)}
        newBmfs == SelectSeq(chunkBmfs, LAMBDA b : b.bmf_name \notin existingNames)
    IN  prev \o newBmfs

\* The MapperResult built by the "result" case.
ResultOf(event) ==
    [extracted_materials |-> arrayOr(event, "extracted_materials"),
     matched_bmfs |-> arrayOr(event, "matched_bmfs"),
     unmatched_materials |-> arrayOr(event, "unmatched_materials"),
     ecosystem_connections |-> arrayOr(event, "ecosystem_connections"),
     ecosystem_services |-> arrayOr(event, "ecosystem_services"),
     ecosystem_service_details |-> recordOr(event, "ecosystem_service_details"),
     processing_time_ms |-> numberOr(event, "processing_time_ms", 0),
     cost_usd |-> numberOr(event, "cost_usd", 0)]

\* handleStreamEvent reduced to a default case that reports an error.
handleStreamEvent_defaultFails(s, event) ==
    [s EXCEPT !.error = Some("Unknown event"),
              !.progress = Progress("error", "Error occurred", Undefined, Undefined, Undefined)]

\* handleStreamEvent as it would be if stage2_chunk_complete replaced the progress object,
\* as the other cases do, instead of updating the one it finds.
handleStreamEvent_chunkReplaces(s, event) ==
    LET eventType == IF "event_type" \in DOMAIN event THEN event.event_type ELSE "undefined"
        message == stringOr(event, "message", "")
        elapsedMs == number(event, "elapsed_ms")
        or(m, d) == IF m # "" THEN m ELSE d
    IN  CASE eventType = "stage1_start" ->
               [s EXCEPT !.progress = Progress("stage1", or(message, "Analyzing strategy..."),
                                               Undefined, Undefined, elapsedMs)]
          [] eventType = "stage1_complete" ->
               LET materials == arrayOr(event, "extracted_materials")
               IN  [s EXCEPT !.extractedMaterials = materials,
                             !.progress = Progress("stage1",
                                 or(message, "Found " \o str(Len(materials)) \o " materials"),
                                 Undefined, Undefined, elapsedMs)]
          [] eventType = "stage2_start" ->
               [s EXCEPT !.progress = Progress("stage2",
                                 or(message, "Matching to BMF database (parallel)..."),
                                 0, number(event, "total_chunks"), elapsedMs)]
          [] eventType = "stage2_chunk_complete" ->
               LET chunkBmfs == arrayOr(event, "matched_bmfs")
               IN  [s EXCEPT !.matchedBmfs =
                                 IF Len(chunkBmfs) > 0 THEN AppendNewBmfs(@, chunkBmfs) ELSE @,
                             !.progress = Progress("undefined",
                                 or(message,
                                    "Chunk " \o str(number(event, "current_chunk"))
                                    \o "/" \o str(number(event, "total_chunks"))
                                    \o " complete"),
                                 number(event, "current_chunk"), Undefined, elapsedMs)]
          [] eventType = "stage3_start" ->
               [s EXCEPT !.progress = Progress("stage3",
                                 or(message, "Fetching ecosystem service connections..."),
                                 Undefined, Undefined, elapsedMs)]
          [] eventType = "stage3_complete" ->
               LET connections == arrayOr(event, "ecosystem_connections")
                   services == arrayOr(event, "ecosystem_services")
                   serviceDetails == recordOr(event, "ecosystem_service_details")
               IN  [s EXCEPT !.ecosystemConnections = connections,
                             !.ecosystemServices = services,
                             !.ecosystemServiceDetails = serviceDetails,
                             !.progress = Progress("stage3",
                                 or(message, "Found " \o str(Len(services)) \o " ecosystem services"),
                                 Undefined, Undefined, elapsedMs)]
          [] eventType = "complete" ->
               [s EXCEPT !.progress = Progress("complete", or(message, "Complete!"),
                                               Undefined, Undefined, elapsedMs)]
          [] eventType = "result" ->
               [s EXCEPT !.result = Some(ResultOf(event)),
                         !.ecosystemServiceDetails = recordOr(event, "ecosystem_service_details"),
                         !.progress = Progress("complete", "Analysis complete",
                                               Undefined, Undefined, Undefined)]
          [] eventType = "error" ->
               [s EXCEPT !.error = Some(stringOr(event, "error", "Unknown error")),
                         !.progress = Progress("error", or(message, "Error occurred"),
                                               Undefined, Undefined, Undefined)]
          [] OTHER -> s

\* handleStreamEvent: the state setters it calls, applied to the page state s.
handleStreamEvent(s, event) ==
    LET eventType == IF "event_type" \in DOMAIN event THEN event.event_type ELSE "undefined"
        message == stringOr(event, "message", "")
        elapsedMs == number(event, "elapsed_ms")
        or(m, d) == IF m # "" THEN m ELSE d
    IN  CASE eventType = "stage1_start" ->
               [s EXCEPT !.progress = Progress("stage1", or(message, "Analyzing strategy..."),
                                               Undefined, Undefined, elapsedMs)]
          [] eventType = "stage1_complete" ->
               LET materials == arrayOr(event, "extracted_materials")
               IN  [s EXCEPT !.extractedMaterials = materials,
                             !.progress = Progress("stage1",
                                 or(message, "Found " \o str(Len(materials)) \o " materials"),
                                 Undefined, Undefined, elapsedMs)]
          [] eventType = "stage2_start" ->
               [s EXCEPT !.progress = Progress("stage2",
                                 or(message, "Matching to BMF database (parallel)..."),
                                 0, number(event, "total_chunks"), elapsedMs)]
          [] eventType = "stage2_chunk_complete" ->
               LET chunkBmfs == arrayOr(event, "matched_bmfs")
               IN  [s EXCEPT !.matchedBmfs =
                                 IF Len(chunkBmfs) > 0 THEN AppendNewBmfs(@, chunkBmfs) ELSE @,
                             !.progress =
                                 [@ EXCEPT !.currentChunk = number(event, "current_chunk"),
                                           !.message = or(message,
                                               "Chunk " \o str(number(event, "current_chunk"))
                                               \o "/" \o str(number(event, "total_chunks"))
                                               \o " complete"),
                                           !.elapsedMs = elapsedMs]]
          [] eventType = "stage3_start" ->
               [s EXCEPT !.progress = Progress("stage3",
                                 or(message, "Fetching ecosystem service connections..."),
                                 Undefined, Undefined, elapsedMs)]
          [] eventType = "stage3_complete" ->
               LET connections == arrayOr(event, "ecosystem_connections")
                   services == arrayOr(event, "ecosystem_services")
                   serviceDetails == recordOr(event, "ecosystem_service_details")
               IN  [s EXCEPT !.ecosystemConnections = connections,
                             !.ecosystemServices = services,
                             !.ecosystemServiceDetails = serviceDetails,
                             !.progress = Progress("stage3",
                                 or(message, "Found " \o str(Len(services)) \o " ecosystem services"),
                                 Undefined, Undefined, elapsedMs)]
          [] eventType = "complete" ->
               [s EXCEPT !.progress = Progress("complete", or(message, "Complete!"),
                                               Undefined, Undefined, elapsedMs)]
          [] eventType = "result" ->
               [s EXCEPT !.result = Some(ResultOf(event)),
                         !.ecosystemServiceDetails = recordOr(event, "ecosystem_service_details"),
                         !.progress = Progress("complete", "Analysis complete",
                                               Undefined, Undefined, Undefined)]
          [] eventType = "error" ->
               [s EXCEPT !.error = Some(stringOr(event, "error", "Unknown error")),
                         !.progress = Progress("error", or(message, "Error occurred"),
                                               Undefined, Undefined, Undefined)]
          [] OTHER -> s

\* showExtractedMaterials as it would be if a non-empty streamed list came first.
showExtractedMaterials_streamFirst(s) ==
    IF s.extractedMaterials # <<>> THEN s.extractedMaterials
    ELSE IF s.result # None THEN s.result[1].extracted_materials ELSE s.extractedMaterials

\* "Show either streaming state or final result": an array or object is truthy, so the
\* result's field wins whenever a result is set.
showExtractedMaterials(s) ==
    IF s.result # None THEN s.result[1].extracted_materials ELSE s.extractedMaterials
\* showMatchedBmfs as it would be if a non-empty streamed list came first.
showMatchedBmfs_streamFirst(s) ==
    IF s.matchedBmfs # <<>> THEN s.matchedBmfs
    ELSE IF s.result # None THEN s.result[1].matched_bmfs ELSE <<>>

showMatchedBmfs(s) ==
    IF s.result # None THEN s.result[1].matched_bmfs ELSE s.matchedBmfs
\* showEcosystemConnections as it would be without the streamed list to fall back on.
showEcosystemConnections_resultOnly(s) ==
    IF s.result # None THEN s.result[1].ecosystem_connections ELSE <<>>

showEcosystemConnections(s) ==
    IF s.result # None THEN s.result[1].ecosystem_connections ELSE s.ecosystemConnections
showEcosystemServices(s) ==
    IF s.result # None THEN s.result[1].ecosystem_services ELSE s.ecosystemServices
showEcosystemServiceDetails(s) ==
    IF s.result # None THEN s.result[1].ecosystem_service_details ELSE s.ecosystemServiceDetails

-----------------------------------------------------------------------------
(* MaterialMapperPage: the view builder *)

BipartiteItem(name) == [id |-> name, label |-> name]

\* `${c.bmf_name}-${c.ecosystem_service}`
ConnectionKey(c) == c.bmf_name \o <<"-">> \o c.ecosystem_service

\* The second filter of the connections: keeps a record unless its key was seen.
RECURSIVE DedupeByKey(_, _)
DedupeByKey(conns, seenConnections) ==
    IF conns = <<>> THEN <<>>
    ELSE LET key == ConnectionKey(Head(conns))
         IN  IF key \in seenConnections
             THEN DedupeByKey(Tail(conns), seenConnections)
             ELSE <<Head(conns)>> \o DedupeByKey(Tail(conns), seenConnections \cup {key})

\* LeftItemsOf as it would be without the outflow filter.
LeftItemsOf_anyFlow(bmfs, conns) ==
    LET bmfNames == distinct([i \in 1..Len(conns) |-> conns[i].bmf_name])
        anyBmfNames == {bmfs[i].bmf_name : i \in 1..Len(bmfs)}
        names == sort(SelectSeq(bmfNames, LAMBDA name : name \in anyBmfNames))
    IN  [i \in 1..Len(names) |-> BipartiteItem(names[i])]

\* leftItems of bipartiteData.
LeftItemsOf(bmfs, conns) ==
    LET bmfNames == distinct([i \in 1..Len(conns) |-> conns[i].bmf_name])
        outflowBmfs == SelectSeq(bmfs,
                           LAMBDA bmf : bmf.flow_type = "outflow" \/ bmf.flow_type = "both")
        outflowBmfNames == {outflowBmfs[i].bmf_name : i \in 1..Len(outflowBmfs)}
        names == sort(SelectSeq(bmfNames, LAMBDA name : name \in outflowBmfNames))
    IN  [i \in 1..Len(names) |-> BipartiteItem(names[i])]

\* rightItems of bipartiteData; services is the array after its sort().
RightItemsOf(services) ==
    [i \in 1..Len(services) |-> BipartiteItem(services[i])]

\* connections of bipartiteData.
ConnectionsOf(leftItems, conns) ==
    LET validBmfNames == {leftItems[i].id : i \in 1..Len(leftItems)}
        kept == DedupeByKey(SelectSeq(conns, LAMBDA c : c.bmf_name \in validBmfNames), {})
    IN  [i \in 1..Len(kept) |->
            [sourceId |-> kept[i].bmf_name, targetId |-> kept[i].ecosystem_service]]

\* The value of the bipartiteData memo for the page state s.
BipartiteDataOf(s) ==
    IF Len(showEcosystemConnections(s)) = 0 THEN None
    ELSE LET leftItems == LeftItemsOf(showMatchedBmfs(s), showEcosystemConnections(s))
         IN  Some([leftItems |-> leftItems,
                   rightItems |-> RightItemsOf(sort(showEcosystemServices(s))),
                   connections |-> ConnectionsOf(leftItems, showEcosystemConnections(s))])

\* What computing the memo does to the page state: showEcosystemServices.sort() sorts
\* the array it is called on, which is the state's own array.
AfterMemo(s) ==
    IF Len(showEcosystemConnections(s)) = 0 THEN s
    ELSE IF s.result # None
         THEN [s EXCEPT !.result[1].ecosystem_services = sort(@)]
         ELSE [s EXCEPT !.ecosystemServices = sort(@)]

-----------------------------------------------------------------------------
(* The backend: event payloads and response bodies *)

FlowA == [bmf_name |-> <<"a">>, flow_type |-> "outflow", confidence |-> "high"]
FlowB == [bmf_name |-> <<"b">>, flow_type |-> "inflow", confidence |-> "medium"]
\* A second record for the name of FlowB.
FlowB2 == [bmf_name |-> <<"b">>, flow_type |-> "both", confidence |-> "low"]
FlowC == [bmf_name |-> <<"c">>, flow_type |-> "outflow", confidence |-> "high"]
\* A second record for the name of FlowC.
FlowC2 == [bmf_name |-> <<"c">>, flow_type |-> "both", confidence |-> "low"]

Connection(bmf, service) ==
    [bmf_name |-> bmf, ecosystem_service |-> service, relationship_type |-> "supports"]

ServiceDetail(service) ==
    [name |-> service, description |-> "about", category |-> "regulating",
     supplementary_connections |-> <<>>]

\* The JSON documents the backend of this model can send, by a one-character code.
Payload ==
    [k \in {"0", "1", "2", "3", "4", "5", "6", "7", "8", "9", "R", "E", "U", "N"} |->
        CASE k = "0" -> [event_type |-> "stage1_complete", extracted_materials |-> <<"m3">>]
          [] k = "1" -> [event_type |-> "stage1_start", message |-> "Extracting", elapsed_ms |-> 5]
          [] k = "2" -> [event_type |-> "stage1_complete", extracted_materials |-> <<"m1", "m2">>]
          [] k = "3" -> [event_type |-> "stage2_start", total_chunks |-> 2]
          [] k = "4" -> [event_type |-> "stage2_chunk_complete", current_chunk |-> 1,
                         total_chunks |-> 2, matched_bmfs |-> <<FlowA, FlowB>>]
          [] k = "5" -> [event_type |-> "stage2_chunk_complete", current_chunk |-> 2,
                         total_chunks |-> 2, matched_bmfs |-> <<FlowB2, FlowC, FlowC2>>]
          [] k = "6" -> [event_type |-> "stage3_start"]
          [] k = "7" -> [event_type |-> "stage3_complete",
                         ecosystem_connections |-> <<Connection(<<"a">>, <<"t">>),
                                                     Connection(<<"b">>, <<"s">>),
                                                     Connection(<<"a">>, <<"t">>)>>,
                         ecosystem_services |-> << <<"t">>, <<"s">> >>,
                         ecosystem_service_details |-> (<<"t">> :> ServiceDetail(<<"t">>))]
          [] k = "8" -> [event_type |-> "complete", elapsed_ms |-> 9]
          [] k = "9" -> [event_type |-> "result",
                         extracted_materials |-> <<"m3">>,
                         matched_bmfs |-> <<FlowC>>,
                         unmatched_materials |-> <<"m3">>,
                         ecosystem_connections |-> <<Connection(<<"c">>, <<"s">>)>>,
                         ecosystem_services |-> << <<"s">>, <<"a">> >>,
                         ecosystem_service_details |-> (<<"s">> :> ServiceDetail(<<"s">>)),
                         processing_time_ms |-> 7, cost_usd |-> 3]
          [] k = "R" -> [event_type |-> "result", message |-> "done"]
          [] k = "E" -> [event_type |-> "error", error |-> "boom"]
          [] k = "U" -> [event_type |-> "heartbeat", message |-> "alive"]
          [] k = "N" -> [message |-> "untyped"]]

\* The text of the JSON document with code k.
Json(k) == <<"{", k, "}">>

\* "data: "
DataPrefix == <<"d", "a", "t", "a", ":", " ">>

\* One line of a response body carrying the JSON document with code k.
DataLine(k) == DataPrefix \o Json(k)

\* A "data: " line whose JSON is cut short.
BrokenLine == DataPrefix \o <<"{", "1">>
\* A line with the field name but not the blank: not a "data: " line.
NoBlankLine == <<"d", "a", "t", "a", ":">> \o Json("E")
\* The empty line that ends a server-sent event.
EmptyLine == <<>>

\* A backend that sends every event type and flushes after whole lines.
EventsServer ==
    [lines |-> {DataLine(k) : k \in DOMAIN Payload}, flush |-> "line"]
\* A backend that sends few line kinds and flushes anywhere.
FramesServer ==
    [lines |-> {DataLine("1"), DataLine("8"), BrokenLine, NoBlankLine, EmptyLine},
     flush |-> "byte"]

IsPrefix(p, t) == Len(p) <= Len(t) /\ SubSeq(t, 1, Len(p)) = p

\* Number of newlines in text.
RECURSIVE Newlines(_)
Newlines(text) ==
    IF text = <<>> THEN 0
    ELSE (IF Head(text) = "\n" THEN 1 ELSE 0) + Newlines(Tail(text))

\* The text after the last newline of text.
RECURSIVE LastFragment(_)
LastFragment(text) ==
    IF text = <<>> THEN <<>>
    ELSE IF text[Len(text)] = "\n" THEN <<>>
    ELSE Append(LastFragment(SubSeq(text, 1, Len(text) - 1)), text[Len(text)])

\* What the backend srv can write next, having written n whole lines and the start
\* p of another: the rest of a line, or part of it, or that and more.
RECURSIVE Continuations(_, _, _)
Continuations(srv, p, n) ==
    IF n >= MaxLines THEN {}
    ELSE UNION {
        LET rest == SubSeq(L, Len(p) + 1, Len(L)) \o <<"\n">>
        IN  {SubSeq(rest, 1, k) : k \in 1..Len(rest)}
            \cup {rest \o more : more \in Continuations(srv, <<>>, n + 1)}
        : L \in {L \in srv.lines : IsPrefix(p, L)}}

\* The values reader.read() can resolve with, after the body text sent so far.
Chunks(srv, sent) ==
    LET all == Continuations(srv, LastFragment(sent), Newlines(sent))
    IN  IF srv.flush = "line" THEN {c \in all : c[Len(c)] = "\n"} ELSE all

-----------------------------------------------------------------------------
(* handleSubmit: the reader loop *)

\* String.prototype.split("\n").
RECURSIVE split(_)
split(text) ==
    IF text = <<>> THEN << <<>> >>
    ELSE LET init == split(SubSeq(text, 1, Len(text) - 1))
             c == text[Len(text)]
         IN  IF c = "\n" THEN Append(init, <<>>)
             ELSE [init EXCEPT ![Len(init)] = Append(@, c)]

\* buffer += decoder.decode(value, { stream: true })
appendChunk(buffer, value) == buffer \o value

\* popLast as it would be if the fragment were not kept.
popLast_dropsFragment(fields) == <<>>

\* lines.pop() || "": the last field, which the split leaves out of the lines.
popLast(fields) == fields[Len(fields)]

\* line.startsWith("data: ")
startsWithData(line) == IsPrefix(DataPrefix, line)

\* line.slice(6)
slice6(line) == SubSeq(line, 7, Len(line))

\* JSON.parse: the document, or a SyntaxError.
JSONparse(text) ==
    IF Len(text) = 3 /\ text[1] = "{" /\ text[3] = "}" /\ text[2] \in DOMAIN Payload
    THEN [ok |-> TRUE, value |-> Payload[text[2]]]
    ELSE [ok |-> FALSE]

\* Whether the body of the line loop hands the line to handleStreamEvent.
IsEventLine(line) == startsWithData(line) /\ JSONparse(slice6(line)).ok

\* The event a line carries.
EventOf(line) == JSONparse(slice6(line)).value

\* String.prototype.trim() on the strategy texts of this model.
RECURSIVE trim(_)
trim(text) ==
    IF text = <<>> THEN <<>>
    ELSE IF Head(text) = " " THEN trim(Tail(text))
    ELSE IF text[Len(text)] = " " THEN trim(SubSeq(text, 1, Len(text) - 1))
    ELSE text

\* What the user can type into the textarea.
Strategies == {<<>>, <<" ">>, <<"s">>}

\* What a rejected fetch() or read() can throw: an Error with a message, an Error with
\* the empty message, or some other value.
Thrown == {[isError |-> TRUE, message |-> "Failed to fetch"],
           [isError |-> TRUE, message |-> ""],
           [isError |-> FALSE, message |-> ""]}

\* A non-success HTTP status.
BadStatus == 500

\* An invocation of handleSubmit: where it stands, its locals buffer and lines, and, for
\* the record, the body text it has read, the events it has handed to
\* handleStreamEvent, and whether its latest chunk was appended to a kept fragment.
\* An invocation that has returned keeps no locals, but for the text its buffer held
\* when the stream ended.  reader tells whether the invocation has locked the
\* response body with getReader(); handleSubmit calls neither cancel() nor
\* releaseLock(), so a lock once taken stays.
NoRun ==
    [pc |-> "none", buffer |-> <<>>, lines |-> <<>>, received |-> <<>>, handed |-> <<>>,
     carried |-> FALSE, reader |-> "none"]
RunAt(pc) == [NoRun EXCEPT !.pc = pc]

\* An invocation that has taken its reader and entered the loop.
Reading == [RunAt("read") EXCEPT !.reader = "locked"]

\* The page state s is rendered: the memo is computed, which sorts the shown services.
Commit(s) ==
    \E rendered \in {s} :
        /\ page' = AfterMemo(rendered)
        /\ bipartiteData' = BipartiteDataOf(rendered)

\* Accepts as it would be without the isLoading test.
Accepts_ignoresLoading(s) == trim(s.strategy) # <<>>

\* Accepts as it would be if the guard tested the text as typed, without trim().
Accepts_noTrim(s) == s.strategy # <<>> /\ ~s.isLoading

\* The guard of handleSubmit: !strategy.trim() || isLoading returns early.
Accepts(s) == trim(s.strategy) # <<>> /\ ~s.isLoading

\* Failed as it would be without the finally block.
Failed_keepsLoading(s, err) ==
    [s EXCEPT !.error = Some(IF err.isError THEN err.message ELSE "Something went wrong"),
              !.progress = Progress("error", "Failed to connect", Undefined, Undefined, Undefined)]

\* The catch and finally blocks of handleSubmit for the thrown value err.
Failed(s, err) ==
    [s EXCEPT !.error = Some(IF err.isError THEN err.message ELSE "Something went wrong"),
              !.progress = Progress("error", "Failed to connect", Undefined, Undefined, Undefined),
              !.isLoading = FALSE]

\* The textarea's onChange; the textarea is disabled while loading.
SetStrategy ==
    /\ ~page.isLoading
    /\ \E text \in Strategies \ {page.strategy} :
           Commit([page EXCEPT !.strategy = text])
    /\ UNCHANGED <<hoveredLeftId, hoveredRightId, runs, requests, lastSubmit, appliedBy,
                   server, clicked>>

\* A submit event that passes the guard: the state is reset and fetch() is called.
\* The reset empties the connections, which unmounts the graph; the records of the
\* invocations that have returned are cleared.
Submit ==
    /\ Accepts(page)
    /\ requests < MaxRuns
    /\ Commit(ResetPage(page))
    /\ runs' = [r \in 1..MaxRuns |->
                   IF r = requests + 1 THEN RunAt("fetch") ELSE RunAt(runs[r].pc)]
    /\ requests' = requests + 1
    /\ lastSubmit' = "accepted"
    /\ appliedBy' = {}
    /\ clicked' = None
    /\ UNCHANGED <<hoveredLeftId, hoveredRightId, server>>

\* A submit event that the guard turns away.
SubmitIgnored ==
    /\ ~Accepts(page)
    /\ lastSubmit' = "ignored"
    /\ UNCHANGED <<page, bipartiteData, hoveredLeftId, hoveredRightId, runs, requests,
                   appliedBy, server, clicked>>

\* The catch and finally blocks run for invocation r.
Throw(r, err) ==
    /\ Commit(Failed(page, err))
    /\ runs' = [runs EXCEPT ![r] = [RunAt("failed") EXCEPT !.reader = runs[r].reader]]
    /\ UNCHANGED <<hoveredLeftId, hoveredRightId, requests, lastSubmit, appliedBy, server, clicked>>

\* fetch() rejects.
FetchRejected(r) ==
    /\ runs[r].pc = "fetch"
    /\ \E err \in Thrown : Throw(r, err)

\* The response has a non-success status.
FetchNotOk(r) ==
    /\ runs[r].pc = "fetch"
    /\ Throw(r, [isError |-> TRUE, message |-> "Request failed: " \o ToString(BadStatus)])

\* The response has no body.
FetchNoBody(r) ==
    /\ runs[r].pc = "fetch"
    /\ Throw(r, [isError |-> TRUE, message |-> "No response body"])

\* The response is fine: a reader is taken and the loop is entered.
FetchOk(r) ==
    /\ runs[r].pc = "fetch"
    /\ runs' = [runs EXCEPT ![r] = Reading]
    /\ UNCHANGED <<page, bipartiteData, hoveredLeftId, hoveredRightId, requests, lastSubmit,
                   appliedBy, server, clicked>>

\* reader.read() resolves with a chunk: the text is appended to the buffer and split,
\* and the last fragment is kept.  The decoder is in stream mode and hands over whole
\* characters, so the text is cut between characters.
ReadChunk(r) ==
    /\ runs[r].pc = "read"
    /\ runs[r].lines = <<>>
    /\ \E value \in Chunks(server, runs[r].received) :
           LET fields == split(appendChunk(runs[r].buffer, value))
           IN  runs' = [runs EXCEPT ![r].buffer = popLast(fields),
                                    ![r].lines = SubSeq(fields, 1, Len(fields) - 1),
                                    ![r].received = @ \o value,
                                    ![r].carried = (runs[r].buffer # <<>>)]
    /\ UNCHANGED <<page, bipartiteData, hoveredLeftId, hoveredRightId, requests, lastSubmit,
                   appliedBy, server, clicked>>

\* ProcessLine as it would be without the try around JSON.parse: a SyntaxError reaches
\* the catch block of handleSubmit.
ProcessLine_noTry(r) ==
    /\ runs[r].pc = "read"
    /\ runs[r].lines # <<>>
    /\ LET line == Head(runs[r].lines)
       IN  IF startsWithData(line)
           THEN IF JSONparse(slice6(line)).ok
                THEN /\ Commit(handleStreamEvent(page, JSONparse(slice6(line)).value))
                     /\ runs' = [runs EXCEPT ![r].lines = Tail(@),
                                             ![r].handed = Append(@, JSONparse(slice6(line)).value)]
                     /\ appliedBy' = appliedBy \cup {r}
                     /\ UNCHANGED <<hoveredLeftId, hoveredRightId, requests, lastSubmit,
                                    server, clicked>>
                ELSE Throw(r, [isError |-> TRUE, message |-> "Unexpected end of JSON input"])
           ELSE /\ runs' = [runs EXCEPT ![r].lines = Tail(@)]
                /\ UNCHANGED <<page, bipartiteData, appliedBy, hoveredLeftId, hoveredRightId,
                               requests, lastSubmit, server, clicked>>

\* One pass of the body of "for (const line of lines)".
ProcessLine(r) ==
    /\ runs[r].pc = "read"
    /\ runs[r].lines # <<>>
    /\ LET line == Head(runs[r].lines)
       IN  IF startsWithData(line) /\ JSONparse(slice6(line)).ok
           THEN /\ Commit(handleStreamEvent(page, JSONparse(slice6(line)).value))
                /\ runs' = [runs EXCEPT ![r].lines = Tail(@),
                                        ![r].handed = Append(@, JSONparse(slice6(line)).value)]
                /\ appliedBy' = appliedBy \cup {r}
           ELSE /\ runs' = [runs EXCEPT ![r].lines = Tail(@)]
                /\ UNCHANGED <<page, bipartiteData, appliedBy>>
    /\ UNCHANGED <<hoveredLeftId, hoveredRightId, requests, lastSubmit, server, clicked>>

\* ReadDone as it would be if the text left in the buffer were treated as a last line.
ReadDone_flushes(r) ==
    /\ runs[r].pc = "read"
    /\ runs[r].lines = <<>>
    /\ Commit([(IF IsEventLine(runs[r].buffer)
                THEN handleStreamEvent(page, EventOf(runs[r].buffer))
                ELSE page) EXCEPT !.isLoading = FALSE])
    /\ runs' = [runs EXCEPT ![r] = [RunAt("done") EXCEPT !.buffer = runs[r].buffer,
                                                         !.reader = runs[r].reader]]
    /\ UNCHANGED <<hoveredLeftId, hoveredRightId, requests, lastSubmit, appliedBy, server,
                   clicked>>

\* reader.read() resolves with done: the loop is left and the finally block runs.
\* Nothing reads the buffer after the loop; the record keeps what was left in it.
ReadDone(r) ==
    /\ runs[r].pc = "read"
    /\ runs[r].lines = <<>>
    /\ Commit([page EXCEPT !.isLoading = FALSE])
    /\ runs' = [runs EXCEPT ![r] = [RunAt("done") EXCEPT !.buffer = runs[r].buffer,
                                                         !.reader = runs[r].reader]]
    /\ UNCHANGED <<hoveredLeftId, hoveredRightId, requests, lastSubmit, appliedBy, server, clicked>>

\* reader.read() rejects.
ReadFailed(r) ==
    /\ runs[r].pc = "read"
    /\ runs[r].lines = <<>>
    /\ \E err \in Thrown : Throw(r, err)

\* handleEcosystemServiceClick: the updater passed to setSelectedEcosystemService.
handleEcosystemServiceClick(s, item) ==
    [s EXCEPT !.selectedEcosystemService = IF @ = Some(item.id) THEN None ELSE Some(item.id)]

\* The page shows the graph section.
GraphShown ==
    /\ Len(showExtractedMaterials(page)) > 0 \/ Len(showMatchedBmfs(page)) > 0
    /\ bipartiteData # None
    /\ Len(bipartiteData[1].connections) > 0

\* A click on a right item of the graph.  BipartiteGraph does not take the
\* onRightItemClick and selectedRightId props the page passes, and the item's element
\* has no onClick: no state setter is called.
RightItemClick ==
    /\ GraphShown
    /\ \E i \in 1..Len(bipartiteData[1].rightItems) :
           clicked' = Some(bipartiteData[1].rightItems[i].id)
    /\ UNCHANGED <<page, bipartiteData, hoveredLeftId, hoveredRightId, runs, requests,
                   lastSubmit, appliedBy, server>>

Init ==
    /\ page = InitialPage
    /\ bipartiteData = None
    /\ hoveredLeftId = None
    /\ hoveredRightId = None
    /\ runs = [r \in 1..MaxRuns |-> NoRun]
    /\ requests = 0
    /\ lastSubmit = "none"
    /\ appliedBy = {}
    /\ server \in {EventsServer, FramesServer}
    /\ clicked = None

Next ==
    \/ SetStrategy
    \/ Submit
    \/ SubmitIgnored
    \/ RightItemClick
    \/ \E r \in 1..MaxRuns :
           \/ FetchRejected(r)
           \/ FetchNotOk(r)
           \/ FetchNoBody(r)
           \/ FetchOk(r)
           \/ ReadChunk(r)
           \/ ProcessLine(r)
           \/ ReadDone(r)
           \/ ReadFailed(r)

Spec == Init /\ [][Next]_vars

\* The transport settles a pending fetch() or read() of invocation r for good: the
\* request is answered or rejected, the stream ends, or a read fails.
Settles(r) ==
    \/ FetchRejected(r)
    \/ FetchNotOk(r)
    \/ FetchNoBody(r)
    \/ FetchOk(r)
    \/ ReadDone(r)
    \/ ReadFailed(r)

\* The page with a transport that does not stall: every pending fetch() and read() is
\* settled in the end, and the loop body runs on the lines that were read.
SpecLive ==
    /\ Init
    /\ [][Next]_vars
    /\ \A r \in 1..MaxRuns : WF_vars(Settles(r)) /\ WF_vars(ProcessLine(r))

-----------------------------------------------------------------------------
(* One run of the whole pipeline: materials, one chunk, connections, complete *)

ScenarioMaterials == {"m1", "m2", "m3"}
ScenarioFlowNames == {<<"a">>, <<"b">>, <<"a", "-", "b">>}
ScenarioServiceNames == {<<"s">>, <<"t">>, <<"b", "-", "c">>}

\* The events of a run that finds the materials m1 and m2, matches the outflow flow F
\* in its one chunk and connects F to the service S.
ScenarioEvents(m1, m2, F, S) ==
    <<[event_type |-> "stage1_complete", extracted_materials |-> <<m1, m2>>],
      [event_type |-> "stage2_chunk_complete", current_chunk |-> 1, total_chunks |-> 1,
       matched_bmfs |-> <<[bmf_name |-> F, flow_type |-> "outflow", confidence |-> "high"]>>],
      [event_type |-> "stage3_complete",
       ecosystem_connections |-> <<Connection(F, S)>>,
       ecosystem_services |-> <<S>>,
       ecosystem_service_details |-> (S :> ServiceDetail(S))],
      [event_type |-> "complete", elapsed_ms |-> 9]>>

\* A backend that sends the events of such a run, one whole line at a time.
ScenarioServer(m1, m2, F, S) ==
    [lines |-> {}, flush |-> "line", script |-> ScenarioEvents(m1, m2, F, S)]

\* A submission was accepted and its stream has been opened.
InitScenario ==
    /\ page = ResetPage([InitialPage EXCEPT !.strategy = <<"s">>])
    /\ bipartiteData = None
    /\ hoveredLeftId = None
    /\ hoveredRightId = None
    /\ runs = [r \in 1..MaxRuns |-> IF r = 1 THEN Reading ELSE NoRun]
    /\ requests = 1
    /\ lastSubmit = "accepted"
    /\ appliedBy = {}
    /\ \E m1, m2 \in ScenarioMaterials, F \in ScenarioFlowNames, S \in ScenarioServiceNames :
           server = ScenarioServer(m1, m2, F, S)
    /\ clicked = None

\* The next line of the stream is read and its event handed to handleStreamEvent.
ScenarioLine ==
    /\ runs[1].pc = "read"
    /\ Len(runs[1].handed) < Len(server.script)
    /\ LET event == server.script[Len(runs[1].handed) + 1]
       IN  /\ Commit(handleStreamEvent(page, event))
           /\ runs' = [runs EXCEPT ![1].handed = Append(@, event)]
    /\ appliedBy' = appliedBy \cup {1}
    /\ UNCHANGED <<hoveredLeftId, hoveredRightId, requests, lastSubmit, server, clicked>>

\* The stream ends.
ScenarioDone ==
    /\ Len(runs[1].handed) = Len(server.script)
    /\ ReadDone(1)

NextScenario == ScenarioLine \/ ScenarioDone

SpecScenario == InitScenario /\ [][NextScenario]_vars

-----------------------------------------------------------------------------
(* The view builder on its own: any flows, connections and services *)

\* Sequences over S of length at most n.
SeqsUpTo(S, n) == UNION {[1..k -> S] : k \in 0..n}

\* flow_type is optional: "undefined" stands for a flow without it; "unknown" is a
\* value the declared type does not list.
FlowTypes == {"outflow", "both", "inflow", "unknown", "undefined"}
ViewFlowNames == {<<"a">>, <<"a", "-", "b">>}
ViewServiceNames == {<<"c">>, <<"b", "-", "c">>}

ViewFlows ==
    {[bmf_name |-> n, flow_type |-> t, confidence |-> "high"] :
        n \in ViewFlowNames, t \in FlowTypes}
ViewConnections ==
    {Connection(n, sv) : n \in ViewFlowNames, sv \in ViewServiceNames}
ViewServiceLists == {<<>>, << <<"c">>, <<"b", "-", "c">> >>}

\* The page holds streamed or final data that the memo has not seen yet.
InitView ==
    /\ \E bmfs \in SeqsUpTo(ViewFlows, MaxBmfs),
          conns \in SeqsUpTo(ViewConnections, MaxConns),
          services \in ViewServiceLists,
          final \in BOOLEAN :
           page = IF final
                  THEN [InitialPage EXCEPT
                           !.result = Some(ResultOf([matched_bmfs |-> bmfs,
                                                     ecosystem_connections |-> conns,
                                                     ecosystem_services |-> services]))]
                  ELSE [InitialPage EXCEPT !.matchedBmfs = bmfs,
                                           !.ecosystemConnections = conns,
                                           !.ecosystemServices = services]
    /\ bipartiteData = None
    /\ hoveredLeftId = None
    /\ hoveredRightId = None
    /\ runs = [r \in 1..MaxRuns |-> NoRun]
    /\ requests = 0
    /\ lastSubmit = "none"
    /\ appliedBy = {}
    /\ server = EventsServer
    /\ clicked = None

\* The page renders.
Render ==
    /\ Commit(page)
    /\ UNCHANGED <<hoveredLeftId, hoveredRightId, runs, requests, lastSubmit, appliedBy,
                   server, clicked>>

SpecView == InitView /\ [][Render]_vars

-----------------------------------------------------------------------------
(* BipartiteGraph *)

\* The props of the mounted component.
leftItems == bipartiteData[1].leftItems
rightItems == bipartiteData[1].rightItems
connections == bipartiteData[1].connections

\* connectionsBySource.get(id): the set of targets, or None for undefined.
connectionsBySource(id) ==
    LET targets == {connections[i].targetId :
                        i \in {j \in 1..Len(connections) : connections[j].sourceId = id}}
    IN  IF targets = {} THEN None ELSE Some(targets)

\* connectionsByTarget.get(id): the set of sources, or None for undefined.
connectionsByTarget(id) ==
    LET sources == {connections[i].sourceId :
                        i \in {j \in 1..Len(connections) : connections[j].targetId = id}}
    IN  IF sources = {} THEN None ELSE Some(sources)

\* Truthiness of string | null: neither null nor the empty string.
Truthy(h) == h # None /\ h[1] # <<>>

\* set?.has(x)
has(set, x) == set # None /\ x \in set[1]

isHovering == hoveredLeftId # None \/ hoveredRightId # None

getHighlightState(sourceId, targetId) ==
    IF ~isHovering THEN "normal"
    ELSE IF Truthy(hoveredLeftId)
         THEN IF Some(sourceId) = hoveredLeftId
                 /\ has(connectionsBySource(hoveredLeftId[1]), targetId)
              THEN "highlighted" ELSE "dimmed"
    ELSE IF Truthy(hoveredRightId)
         THEN IF Some(targetId) = hoveredRightId
                 /\ has(connectionsByTarget(hoveredRightId[1]), sourceId)
              THEN "highlighted" ELSE "dimmed"
    ELSE "normal"

isLeftItemHighlighted(itemId) ==
    IF ~Truthy(hoveredLeftId) /\ ~Truthy(hoveredRightId) THEN FALSE
    ELSE IF hoveredLeftId = Some(itemId) THEN TRUE
    ELSE IF Truthy(hoveredRightId) THEN has(connectionsByTarget(hoveredRightId[1]), itemId)
    ELSE FALSE

isRightItemHighlighted(itemId) ==
    IF ~Truthy(hoveredLeftId) /\ ~Truthy(hoveredRightId) THEN FALSE
    ELSE IF hoveredRightId = Some(itemId) THEN TRUE
    ELSE IF Truthy(hoveredLeftId) THEN has(connectionsBySource(hoveredLeftId[1]), itemId)
    ELSE FALSE

\* How an item is drawn: the highlighted and dimmed flags of the column's map callback.
ItemState(highlighted) ==
    IF highlighted THEN "highlighted" ELSE IF isHovering THEN "dimmed" ELSE "normal"
LeftItemState(itemId) == ItemState(isLeftItemHighlighted(itemId))
RightItemState(itemId) == ItemState(isRightItemHighlighted(itemId))

LeftIds == {leftItems[i].id : i \in 1..Len(leftItems)}
RightIds == {rightItems[i].id : i \in 1..Len(rightItems)}

\* The connections the svg draws: those whose two ends have a position.
DrawnEdges ==
    {i \in 1..Len(connections) :
        connections[i].sourceId \in LeftIds /\ connections[i].targetId \in RightIds}

GraphLeftIds == {<<>>, <<"a">>, <<"b">>}
GraphRightIds == {<<>>, <<"s">>, <<"t">>}
GraphEdges == {[sourceId |-> l, targetId |-> r] : l \in GraphLeftIds, r \in GraphRightIds}

\* The component is mounted with some props and nothing hovered.
InitGraph ==
    /\ \E left \in {<<BipartiteItem(<<>>), BipartiteItem(<<"a">>), BipartiteItem(<<"b">>)>>,
                    <<BipartiteItem(<<"a">>), BipartiteItem(<<"b">>)>>,
                    <<BipartiteItem(<<"a">>)>>},
          right \in {<<BipartiteItem(<<>>), BipartiteItem(<<"s">>), BipartiteItem(<<"t">>)>>,
                     <<BipartiteItem(<<"s">>), BipartiteItem(<<"t">>)>>,
                     <<BipartiteItem(<<"s">>)>>},
          edges \in SeqsUpTo(GraphEdges, MaxEdges) :
           bipartiteData = Some([leftItems |-> left, rightItems |-> right,
                                 connections |-> edges])
    /\ page = InitialPage
    /\ hoveredLeftId = None
    /\ hoveredRightId = None
    /\ runs = [r \in 1..MaxRuns |-> NoRun]
    /\ requests = 0
    /\ lastSubmit = "none"
    /\ appliedBy = {}
    /\ server = EventsServer
    /\ clicked = None

\* onMouseEnter of a left item.
LeftMouseEnter ==
    /\ \E id \in LeftIds : hoveredLeftId' = Some(id)
    /\ UNCHANGED <<page, bipartiteData, hoveredRightId, runs, requests, lastSubmit,
                   appliedBy, server, clicked>>

\* onMouseLeave of a left item.
LeftMouseLeave ==
    /\ LeftIds # {}
    /\ hoveredLeftId' = None
    /\ UNCHANGED <<page, bipartiteData, hoveredRightId, runs, requests, lastSubmit,
                   appliedBy, server, clicked>>

\* onMouseEnter of a right item.
RightMouseEnter ==
    /\ \E id \in RightIds : hoveredRightId' = Some(id)
    /\ UNCHANGED <<page, bipartiteData, hoveredLeftId, runs, requests, lastSubmit,
                   appliedBy, server, clicked>>

\* onMouseLeave of a right item.
RightMouseLeave ==
    /\ RightIds # {}
    /\ hoveredRightId' = None
    /\ UNCHANGED <<page, bipartiteData, hoveredLeftId, runs, requests, lastSubmit,
                   appliedBy, server, clicked>>

NextGraph ==
    \/ LeftMouseEnter
    \/ LeftMouseLeave
    \/ RightMouseEnter
    \/ RightMouseLeave

SpecGraph == InitGraph /\ [][NextGraph]_vars

-----------------------------------------------------------------------------
(* Properties of the stream aggregator, checked under Spec *)

Last(seq) == seq[Len(seq)]

RunIds == 1..MaxRuns

\* The names of a list of flows.
NamesOf(bmfs) == [i \in 1..Len(bmfs) |-> bmfs[i].bmf_name]

\* The flow names the stage2_chunk_complete events of a list of events carry, in the
\* order in which they are met.
RECURSIVE ChunkNames(_)
ChunkNames(events) ==
    IF events = <<>> THEN <<>>
    ELSE LET e == Head(events)
         IN  (IF "event_type" \in DOMAIN e /\ e.event_type = "stage2_chunk_complete"
                 /\ "matched_bmfs" \in DOMAIN e
              THEN NamesOf(e.matched_bmfs) ELSE <<>>) \o ChunkNames(Tail(events))

\* C1: whatever stage2_chunk_complete events a run has applied, the accumulated
\* matched-flow list holds each flow name they carried exactly once, in the order in
\* which the names were first observed.
C1_EachNameOnceInFirstSeenOrder ==
    \A r \in RunIds :
        runs[r].pc = "read" =>
            NamesOf(page.matchedBmfs) = distinct(ChunkNames(runs[r].handed))

\* The lines that are complete in a body text: its fields but the last.
CompleteLines(text) == SubSeq(split(text), 1, Len(split(text)) - 1)

\* The events the line loop hands over for a list of lines.
EventsOfLines(lines) ==
    LET eventLines == SelectSeq(lines, IsEventLine)
    IN  [i \in 1..Len(eventLines) |-> EventOf(eventLines[i])]

\* C2: however the body text read so far was cut into chunks, the events handed to
\* handleStreamEvent, followed by those of the lines still waiting in the line loop,
\* are the events the reader hands over when the same text arrives as one chunk, in
\* the same order, and the fragment kept is the one that single chunk leaves.
C2_ChunkingDoesNotChangeEvents ==
    \A r \in RunIds :
        runs[r].pc = "read" =>
            /\ runs[r].handed \o EventsOfLines(runs[r].lines)
                   = EventsOfLines(CompleteLines(runs[r].received))
            /\ runs[r].buffer = Last(split(runs[r].received))

\* A line of an event was cut by a chunk boundary, and its event was handed over once
\* the rest of the line arrived.
C2_Witness ==
    \E r \in RunIds :
        /\ runs[r].pc = "read"
        /\ runs[r].carried
        /\ runs[r].lines = <<>>
        /\ runs[r].buffer = <<>>
        /\ runs[r].received = DataLine("1") \o <<"\n">>
        /\ runs[r].handed = <<Payload["1"]>>

\* A complete line that is no event line: it lacks the prefix, or what follows the
\* prefix is not the text of a JSON document.
NotAnEventLine(line) ==
    \/ Len(line) < 6
    \/ SubSeq(line, 1, 6) # <<"d", "a", "t", "a", ":", " ">>
    \/ ~ \E k \in DOMAIN Payload : SubSeq(line, 7, Len(line)) = <<"{", k, "}">>

\* C3: the line loop passes over a complete line that is no event line without
\* handing anything over, without changing the page (so the stage does not become
\* error) and without leaving the loop; and a line that is an event line is handed
\* over whatever lines came before it.
C3_BadLineIsSkipped ==
    [][\A r \in RunIds :
          (runs[r].pc = "read" /\ runs[r].lines # <<>> /\ runs'[r] # runs[r]) =>
              IF NotAnEventLine(Head(runs[r].lines))
              THEN /\ page' = page
                   /\ bipartiteData' = bipartiteData
                   /\ runs'[r] = [runs[r] EXCEPT !.lines = Tail(@)]
              ELSE /\ runs'[r].pc = "read"
                   /\ runs'[r].lines = Tail(runs[r].lines)
                   /\ Len(runs'[r].handed) = Len(runs[r].handed) + 1]_vars

\* A line with a cut-short JSON text was passed over and the event line after it was
\* applied: the stage is the one that event sets.
C3_Witness ==
    \E r \in RunIds :
        /\ runs[r].pc = "read"
        /\ runs[r].lines = <<>>
        /\ Len(CompleteLines(runs[r].received)) = 2
        /\ NotAnEventLine(CompleteLines(runs[r].received)[1])
        /\ IsPrefix(DataPrefix, CompleteLines(runs[r].received)[1])
        /\ ~NotAnEventLine(CompleteLines(runs[r].received)[2])
        /\ Len(runs[r].handed) = 1
        /\ page.progress.stage = "stage1"
        /\ page.error = None

\* A list-typed field of a payload, an absent one counting as empty.
PayloadList(e, f) == IF f \in DOMAIN e THEN e[f] ELSE <<>>
\* A number-typed field of a payload, an absent one counting as 0.
PayloadNumber(e, f) == IF f \in DOMAIN e THEN e[f] ELSE 0

\* The latest event applied in a run is a result event.
ResultJustApplied(r) ==
    /\ runs[r].pc = "read"
    /\ runs[r].handed # <<>>
    /\ "event_type" \in DOMAIN Last(runs[r].handed)
    /\ Last(runs[r].handed).event_type = "result"

\* C4: once a result event is applied, the materials, flows, connections and service
\* details shown are those of its payload, the services shown are the payload's
\* services (its array, which the view builder orders in place), time and cost are
\* the payload's, and the stage is complete, whatever was applied before.
C4_ResultOverwrites ==
    \A r \in RunIds :
        ResultJustApplied(r) =>
            LET e == Last(runs[r].handed)
            IN  /\ showExtractedMaterials(page) = PayloadList(e, "extracted_materials")
                /\ showMatchedBmfs(page) = PayloadList(e, "matched_bmfs")
                /\ showEcosystemConnections(page) = PayloadList(e, "ecosystem_connections")
                /\ sort(showEcosystemServices(page)) = sort(PayloadList(e, "ecosystem_services"))
                /\ showEcosystemServiceDetails(page)
                       = (IF "ecosystem_service_details" \in DOMAIN e
                          THEN e.ecosystem_service_details ELSE EmptyMap)
                /\ page.result # None
                /\ page.result[1].processing_time_ms = PayloadNumber(e, "processing_time_ms")
                /\ page.result[1].cost_usd = PayloadNumber(e, "cost_usd")
                /\ page.progress.stage = "complete"

\* A result event was applied after streamed materials that differ from its own.
C4_Witness ==
    \E r \in RunIds :
        /\ ResultJustApplied(r)
        /\ Len(runs[r].handed) = 2
        /\ runs[r].handed[1].event_type = "stage1_complete"
        /\ page.extractedMaterials # <<>>
        /\ page.extractedMaterials # showExtractedMaterials(page)

\* The page state but for the strategy text and the loading flag.
Snapshot(s) == [s EXCEPT !.strategy = <<>>, !.isLoading = FALSE]

\* An event is handed to handleStreamEvent in this step.
EventApplied ==
    \E r \in RunIds :
        runs[r].pc = "read" /\ runs'[r].pc = "read"
        /\ Len(runs'[r].handed) = Len(runs[r].handed) + 1

\* C5: once the stage is error, no event that arrives later on the same stream
\* changes the stage, the error message or any data field.
C5_ErrorIsAbsorbing ==
    [][(page.progress.stage = "error" /\ EventApplied) =>
           Snapshot(page') = Snapshot(page)]_vars

\* Some invocation of handleSubmit has its stream open.
StreamOpen == \E r \in RunIds : runs[r].pc = "read"

\* The invocations that have not returned.
InFlight == {r \in RunIds : runs[r].pc \in {"fetch", "read"}}

C7_SubmitResetsSnapshot ==
    \A r \in RunIds :
        (runs[r].pc = "fetch" \/ (runs[r].pc = "read" /\ runs[r].handed = <<>>)) =>
            /\ page.error = None
            /\ page.result = None
            /\ page.extractedMaterials = <<>>
            /\ page.matchedBmfs = <<>>
            /\ page.ecosystemConnections = <<>>
            /\ page.ecosystemServices = <<>>
            /\ page.ecosystemServiceDetails = EmptyMap
            /\ page.selectedEcosystemService = None
            /\ page.progress.stage = "idle"
            /\ bipartiteData = None

\* A second submission was accepted after a run that ended in the catch block.
C7_Witness ==
    /\ requests = 2
    /\ runs[1].pc = "failed"
    /\ runs[2].pc = "fetch"

-----------------------------------------------------------------------------
(* Properties of the view builder, checked under SpecView *)

\* The ids of a list of items, in order.
IdsOf(items) == [i \in 1..Len(items) |-> items[i].id]

\* The names the shown connections refer to.
ConnectedNames(s) ==
    {showEcosystemConnections(s)[i].bmf_name : i \in 1..Len(showEcosystemConnections(s))}

\* The names of the shown flows whose flow_type is one of types.
NamesOfType(s, types) ==
    {showMatchedBmfs(s)[i].bmf_name :
        i \in {j \in 1..Len(showMatchedBmfs(s)) : showMatchedBmfs(s)[j].flow_type \in types}}

\* C8: the left items are the connected names that are names of outflow or both
\* flows, strictly ascending; a connected name with no outflow or both flow is not a
\* left item.
C8_LeftItemsAreConnectedOutflows ==
    bipartiteData # None =>
        LET ids == IdsOf(bipartiteData[1].leftItems)
        IN  /\ Range(ids) = ConnectedNames(page) \cap NamesOfType(page, {"outflow", "both"})
            /\ \A i, j \in 1..Len(ids) : i < j => LexLess(ids[i], ids[j])
            /\ \A i \in 1..Len(ids) : bipartiteData[1].leftItems[i].label = ids[i]
            /\ \A n \in ConnectedNames(page) :
                   n \notin NamesOfType(page, {"outflow", "both"}) => n \notin Range(ids)

\* Two names are connected, one matched by an outflow flow and one only by an inflow
\* flow: the view has the first as its one left item.
C8_Witness ==
    /\ bipartiteData # None
    /\ ConnectedNames(page) = {<<"a">>, <<"a", "-", "b">>}
    /\ NamesOfType(page, {"inflow"}) = {<<"a">>}
    /\ IdsOf(bipartiteData[1].leftItems) = << <<"a", "-", "b">> >>

\* The (source id, target id) pairs of the shown connections whose bmf_name is a left
\* item, in order.
LeftPairs(s, view) ==
    LET kept == SelectSeq(showEcosystemConnections(s),
                          LAMBDA c : c.bmf_name \in Range(IdsOf(view.leftItems)))
    IN  [i \in 1..Len(kept) |->
            [sourceId |-> kept[i].bmf_name, targetId |-> kept[i].ecosystem_service]]

\* C9: the edges are the distinct (source id, target id) pairs of the connections of
\* left items, in order of first occurrence, whatever characters the names contain.
C9_OneEdgePerDistinctPair ==
    bipartiteData # None =>
        bipartiteData[1].connections = distinct(LeftPairs(page, bipartiteData[1]))

-----------------------------------------------------------------------------
(* Properties of BipartiteGraph, checked under SpecGraph *)

\* The drawn edges from the left item l to the right item r.
Joined(l, r) ==
    \E i \in DrawnEdges : connections[i].sourceId = l /\ connections[i].targetId = r

EdgeState(i) == getHighlightState(connections[i].sourceId, connections[i].targetId)

\* C10: with only a left item L hovered, L, the right items joined to L and the edges
\* from L are highlighted and everything else is dimmed; likewise with only a right
\* item hovered; with nothing hovered, every item and edge is normal.
C10_HoverHighlightsNeighbourhood ==
    /\ (hoveredLeftId # None /\ hoveredRightId = None) =>
           LET L == hoveredLeftId[1]
           IN  /\ \A l \in LeftIds :
                      LeftItemState(l) = IF l = L THEN "highlighted" ELSE "dimmed"
               /\ \A r \in RightIds :
                      RightItemState(r) = IF Joined(L, r) THEN "highlighted" ELSE "dimmed"
               /\ \A i \in DrawnEdges :
                      EdgeState(i) = IF connections[i].sourceId = L
                                     THEN "highlighted" ELSE "dimmed"
    /\ (hoveredRightId # None /\ hoveredLeftId = None) =>
           LET R == hoveredRightId[1]
           IN  /\ \A r \in RightIds :
                      RightItemState(r) = IF r = R THEN "highlighted" ELSE "dimmed"
               /\ \A l \in LeftIds :
                      LeftItemState(l) = IF Joined(l, R) THEN "highlighted" ELSE "dimmed"
               /\ \A i \in DrawnEdges :
                      EdgeState(i) = IF connections[i].targetId = R
                                     THEN "highlighted" ELSE "dimmed"
    /\ (hoveredLeftId = None /\ hoveredRightId = None) =>
           /\ \A l \in LeftIds : LeftItemState(l) = "normal"
           /\ \A r \in RightIds : RightItemState(r) = "normal"
           /\ \A i \in DrawnEdges : EdgeState(i) = "normal"

-----------------------------------------------------------------------------
(* Further properties of the stream aggregator, checked under Spec *)

\* The event types the switch of handleStreamEvent has a case for.
RecognizedTypes ==
    {"stage1_start", "stage1_complete", "stage2_start", "stage2_chunk_complete",
     "stage3_start", "stage3_complete", "complete", "result", "error"}

Recognized(event) == "event_type" \in DOMAIN event /\ event.event_type \in RecognizedTypes

\* Invocation r hands an event to handleStreamEvent in this step.
Applies(r) ==
    /\ runs[r].pc = "read"
    /\ Len(runs'[r].handed) = Len(runs[r].handed) + 1

\* The event handed over in this step by invocation r.
Applied(r) == Last(runs'[r].handed)

\* C11: an event of an unrecognized type, or with no event_type, changes no field of
\* the page and no part of the view, and the invocation goes on reading.
C11_UnknownEventChangesNothing ==
    [][\A r \in RunIds :
           (Applies(r) /\ ~Recognized(Applied(r))) =>
               /\ page' = page
               /\ bipartiteData' = bipartiteData
               /\ runs'[r].pc = "read"]_vars

\* A heartbeat was handed over after stage 1 had started, and the stream is open.
C11_Witness ==
    \E r \in RunIds :
        /\ runs[r].pc = "read"
        /\ Len(runs[r].handed) = 2
        /\ runs[r].handed[1].event_type = "stage1_start"
        /\ ~Recognized(runs[r].handed[2])
        /\ page.progress.stage = "stage1"

\* Invocation r ends in the catch block in this step.
Fails(r) == runs[r].pc \in {"fetch", "read"} /\ runs'[r].pc = "failed"

\* C12: an invocation that ends in the catch block leaves the stage at error, a
\* non-empty error message and the loading flag cleared, and sends no request; a
\* request is sent only by an accepted submission, one for each.
C12_FailureEndsInErrorWithMessage ==
    [][/\ \A r \in RunIds :
              Fails(r) =>
                  /\ page'.progress.stage = "error"
                  /\ page'.error # None
                  /\ page'.error[1] # ""
                  /\ ~page'.isLoading
                  /\ requests' = requests
       /\ requests' # requests =>
              (lastSubmit' = "accepted" /\ requests' = requests + 1)]_vars

\* The list after holds at least as many flows as the list before, and every flow of
\* the list before.
Keeps(before, after) == Len(after) >= Len(before) /\ Range(before) \subseteq Range(after)

IsResult(event) == "event_type" \in DOMAIN event /\ event.event_type = "result"

\* C13 as stated: no event shrinks the matched-flow list as displayed.
C13_DisplayedFlowsNeverShrink ==
    [][\A r \in RunIds :
           Applies(r) => Keeps(showMatchedBmfs(page), showMatchedBmfs(page'))]_vars

\* C13 as amended: no event other than a result shrinks the matched-flow list as
\* displayed, and no event at all shrinks the streamed list; a result event puts its
\* payload's list on display.
C13_OnlyResultShrinksDisplayedFlows ==
    [][\A r \in RunIds :
           Applies(r) =>
               /\ Keeps(page.matchedBmfs, page'.matchedBmfs)
               /\ IF IsResult(Applied(r))
                  THEN showMatchedBmfs(page') = arrayOr(Applied(r), "matched_bmfs")
                  ELSE Keeps(showMatchedBmfs(page), showMatchedBmfs(page'))]_vars

\* Two chunks were applied, and the displayed list holds the first chunk's flows and
\* more.
C13_Witness ==
    \E r \in RunIds :
        /\ runs[r].handed = <<Payload["4"], Payload["5"]>>
        /\ page.result = None
        /\ SubSeq(showMatchedBmfs(page), 1, 2) = <<FlowA, FlowB>>
        /\ Len(showMatchedBmfs(page)) > 2

IsChunk(event) ==
    "event_type" \in DOMAIN event /\ event.event_type = "stage2_chunk_complete"

\* The stage2_chunk_complete events the backend of this model can send.
ChunkEvents == {Payload[k] : k \in {"4", "5"}}

\* The matched-flow list after the events of the sequence events are applied, in order,
\* to the page state s.
RECURSIVE FlowsAfter(_, _)
FlowsAfter(s, events) ==
    IF events = <<>> THEN s.matchedBmfs
    ELSE FlowsAfter(handleStreamEvent(s, Head(events)), Tail(events))

\* C14: when a chunk event a is applied, applying it again changes nothing, and for
\* every chunk event b the list is the same whether a is followed by b or b by a.
C14_ChunksCommuteAndAreIdempotent ==
    [][\A r \in RunIds :
           (Applies(r) /\ IsChunk(Applied(r))) =>
               LET a == Applied(r)
               IN  /\ page'.matchedBmfs = FlowsAfter(page, <<a>>)
                   /\ FlowsAfter(page, <<a, a>>) = FlowsAfter(page, <<a>>)
                   /\ \A b \in ChunkEvents :
                          FlowsAfter(page, <<a, b>>) = FlowsAfter(page, <<b, a>>)]_vars

\* C15: a click on a right item leaves the selection as handleEcosystemServiceClick
\* makes it: the clicked id, or null when the clicked id was the selected one; and
\* the selection changes in no step but a click or an accepted submission.
C15_ClickTogglesSelection ==
    [][/\ (GraphShown /\ clicked' # clicked) =>
              \A i \in 1..Len(rightItems) :
                  clicked' = Some(rightItems[i].id) =>
                      page'.selectedEcosystemService =
                          handleEcosystemServiceClick(page, rightItems[i]).selectedEcosystemService
       /\ page'.selectedEcosystemService # page.selectedEcosystemService =>
              (clicked' # clicked \/ requests' # requests)]_vars

-----------------------------------------------------------------------------
(* The whole pipeline, checked under SpecScenario *)

\* The flow and the service of the run's script.
ScenarioF == server.script[2].matched_bmfs[1].bmf_name
ScenarioS == server.script[3].ecosystem_services[1]

\* C16: after stage1_complete with two materials, one chunk with the outflow flow F,
\* stage3_complete connecting F to S, and complete, the view has 2 materials, 1 flow,
\* the left item F, the right item S, the edge (F, S), and the stage is complete.
C16_PipelineView ==
    page.progress.stage = "complete" =>
        /\ Len(showExtractedMaterials(page)) = 2
        /\ Len(showMatchedBmfs(page)) = 1
        /\ bipartiteData # None
        /\ bipartiteData[1].leftItems = <<BipartiteItem(ScenarioF)>>
        /\ bipartiteData[1].rightItems = <<BipartiteItem(ScenarioS)>>
        /\ bipartiteData[1].connections = <<[sourceId |-> ScenarioF, targetId |-> ScenarioS]>>

\* The run of the flow "a-b" and the service "b-c" is over.
C16_Witness ==
    /\ page.progress.stage = "complete"
    /\ ~page.isLoading
    /\ runs[1].pc = "done"
    /\ bipartiteData # None
    /\ bipartiteData[1].connections =
           <<[sourceId |-> <<"a", "-", "b">>, targetId |-> <<"b", "-", "c">>]>>

-----------------------------------------------------------------------------
(* The stage machine, checked under Spec *)

\* The stage the transition table gives for an event type.
TargetStage(eventType) ==
    CASE eventType \in {"stage1_start", "stage1_complete"} -> "stage1"
      [] eventType \in {"stage2_start", "stage2_chunk_complete"} -> "stage2"
      [] eventType \in {"stage3_start", "stage3_complete"} -> "stage3"
      [] eventType \in {"complete", "result"} -> "complete"
      [] eventType = "error" -> "error"

\* C17: after an event of a recognized type is applied, the stage is the one the
\* transition table gives for the type.
C17_StageFollowsTable ==
    [][\A r \in RunIds :
           (Applies(r) /\ Recognized(Applied(r))) =>
               page'.progress.stage = TargetStage(Applied(r).event_type)]_vars

\* C18: once the stage is complete, no event of the stream moves it to idle, stage1,
\* stage2 or stage3.
C18_CompleteIsTerminal ==
    [][\A r \in RunIds :
           (Applies(r) /\ page.progress.stage = "complete") =>
               page'.progress.stage \notin {"idle", "stage1", "stage2", "stage3"}]_vars

\* C19: while no result is set, an event that is not a result leaves every streamed
\* material where it was: the list before is a prefix of the list after.
C19_MaterialsAppendOnly ==
    [][\A r \in RunIds :
           (Applies(r) /\ page.result = None /\ ~IsResult(Applied(r))) =>
               IsPrefix(page.extractedMaterials, page'.extractedMaterials)]_vars

-----------------------------------------------------------------------------
(* The end of the stream, checked under Spec *)

\* Invocation r sees the end of its stream in this step.
Ends(r) == runs[r].pc = "read" /\ runs'[r].pc = "done"

\* C20: when the stream ends, whatever is left in the buffer, no event is applied: but
\* for the loading flag, the page and the view stay as they were.
C20_LeftoverIsDiscarded ==
    [][\A r \in RunIds :
           Ends(r) =>
               /\ page' = [page EXCEPT !.isLoading = FALSE]
               /\ bipartiteData' = bipartiteData
               /\ runs'[r].handed = <<>>
               /\ appliedBy' = appliedBy]_vars

\* A stream ended after the text of a whole complete frame but before its newline:
\* nothing was applied, and the stage is still idle.
C20_Witness ==
    \E r \in RunIds :
        /\ runs[r].pc = "done"
        /\ runs[r].buffer = DataLine("8")
        /\ IsEventLine(runs[r].buffer)
        /\ page.progress.stage = "idle"
        /\ ~page.isLoading

-----------------------------------------------------------------------------
(* Further properties of BipartiteGraph, checked under SpecGraph *)

\* C21: at most one of the two hovered ids is set.
C21_OneSideHovered == hoveredLeftId = None \/ hoveredRightId = None

\* The state the edge rule gives the edge (s, t) when only the left item h is
\* hovered: highlighted when s is h and t is joined to h by a connection.
LeftHoverRule(h, s, t) ==
    IF s = h /\ (\E i \in 1..Len(connections) :
                     connections[i].sourceId = h /\ connections[i].targetId = t)
    THEN "highlighted" ELSE "dimmed"

\* The same when only the right item h is hovered.
RightHoverRule(h, s, t) ==
    IF t = h /\ (\E i \in 1..Len(connections) :
                     connections[i].targetId = h /\ connections[i].sourceId = s)
    THEN "highlighted" ELSE "dimmed"

\* C22: for every pair of ids, getHighlightState is normal exactly when nothing is
\* hovered, follows the left rule under a left hover and the right rule under a right
\* hover, whatever the ids are.
C22_EdgeRule ==
    \A s \in GraphLeftIds, t \in GraphRightIds :
        /\ getHighlightState(s, t) = "normal" <=>
               (hoveredLeftId = None /\ hoveredRightId = None)
        /\ (hoveredLeftId # None /\ hoveredRightId = None) =>
               getHighlightState(s, t) = LeftHoverRule(hoveredLeftId[1], s, t)
        /\ (hoveredRightId # None /\ hoveredLeftId = None) =>
               getHighlightState(s, t) = RightHoverRule(hoveredRightId[1], s, t)

-----------------------------------------------------------------------------
(* Further properties of the view builder, checked under SpecView *)

\* C23: computing the view changes none of the three shown lists, and computing it
\* again from the page as it then is gives the same view.
C23_BuilderIsPure ==
    [][/\ showMatchedBmfs(page') = showMatchedBmfs(page)
       /\ showEcosystemConnections(page') = showEcosystemConnections(page)
       /\ showEcosystemServices(page') = showEcosystemServices(page)
       /\ BipartiteDataOf(page') = bipartiteData']_vars

\* C24: every edge of the view starts at a left item and ends at a right item, and
\* the right items are the shown services in ascending order.
C24_EdgesJoinItems ==
    bipartiteData # None =>
        LET view == bipartiteData[1]
            right == IdsOf(view.rightItems)
        IN  /\ \A i \in 1..Len(view.connections) :
                   /\ view.connections[i].sourceId \in Range(IdsOf(view.leftItems))
                   /\ view.connections[i].targetId \in Range(right)
            /\ right = sort(showEcosystemServices(page))
            /\ \A i, j \in 1..Len(right) : i < j => ~LexLess(right[j], right[i])

-----------------------------------------------------------------------------
(* Resources, termination and frames of the stream aggregator, checked under Spec *)

\* The invocations that have returned.
Returned == {r \in RunIds : runs[r].pc \in {"done", "failed"}}

\* The state of the response body of invocation r, as its reader sees it.
BodyState(r) ==
    CASE runs[r].reader = "none" -> "unread"
      [] runs[r].pc = "read" -> "readable"
      [] runs[r].pc = "done" -> "closed"
      [] runs[r].pc = "failed" -> "errored"

\* C25: when an invocation that took a reader has returned, the reader has been
\* released: the body is closed or cancelled, or the lock is given back.
C25_ReaderReleased ==
    \A r \in RunIds :
        (r \in Returned /\ runs[r].reader # "none") =>
            (BodyState(r) \in {"closed", "cancelled"} \/ runs[r].reader = "released")

\* C26: with a transport that does not stall, a loading page stops loading in the end;
\* and the flag is cleared in no step but one in which an invocation returns, because
\* its stream ended or its fetch or read failed.
C26_LoadingEndsWithTheTransport ==
    /\ page.isLoading ~> ~page.isLoading
    /\ [][(page.isLoading /\ ~page'.isLoading) =>
              \E r \in RunIds :
                  runs[r].pc \in {"fetch", "read"} /\ runs'[r].pc \in {"done", "failed"}]_vars

\* A stream has ended in stage 3 and the page has stopped loading.
C26_Witness ==
    \E r \in RunIds :
        /\ runs[r].pc = "done"
        /\ page.progress.stage = "stage3"
        /\ ~page.isLoading

\* The events that announce a stage or the end, with no data of their own.
Announcements == {"stage1_start", "stage3_start", "complete"}

\* C27: a stage1_start, stage3_start or complete event changes nothing of the page but
\* the stage, the message and the elapsed time: the data fields, the result, the error
\* and the stage-2 chunk counters are what they were.
C27_AnnouncementsKeepTheRest ==
    [][\A r \in RunIds :
           (Applies(r) /\ Recognized(Applied(r))
                /\ Applied(r).event_type \in Announcements) =>
               /\ page'.extractedMaterials = page.extractedMaterials
               /\ page'.matchedBmfs = page.matchedBmfs
               /\ page'.ecosystemConnections = page.ecosystemConnections
               /\ page'.ecosystemServices = page.ecosystemServices
               /\ page'.ecosystemServiceDetails = page.ecosystemServiceDetails
               /\ page'.result = page.result
               /\ page'.error = page.error
               /\ page'.progress.totalChunks = page.progress.totalChunks
               /\ page'.progress.currentChunk = page.progress.currentChunk]_vars

\* The guard of handleSubmit turns a submission away.
TurnedAway == page.isLoading \/ trim(page.strategy) = <<>>

\* C28: while the page is loading, or the strategy is empty or blank, no step sends a
\* request, and a submit event changes neither the page, nor the view, nor any
\* invocation; and at no time do two invocations read a stream.
C28_RefusedSubmitIsNoOp ==
    /\ [][TurnedAway =>
              /\ requests' = requests
              /\ (Submit \/ SubmitIgnored) =>
                     UNCHANGED <<page, bipartiteData, runs, appliedBy>>]_vars
    /\ [](Cardinality({r \in RunIds : runs[r].pc = "read"}) <= 1)

\* A submit event with a blank strategy was turned away while the result of an earlier
\* run was on display.
C28_Witness ==
    /\ lastSubmit = "ignored"
    /\ page.strategy = <<" ">>
    /\ ~page.isLoading
    /\ page.result # None

\* The events that carry streamed data.
DataEvents == {"stage1_complete", "stage2_chunk_complete", "stage3_complete"}

\* The result events among the events handed over by invocation r.
ResultsOf(r) == SelectSeq(runs[r].handed, IsResult)

\* C29: once a result event is applied in a run, what is displayed is its payload (the
\* services as the view builder orders them), and no stage1_complete,
\* stage2_chunk_complete or stage3_complete event that follows changes what is
\* displayed or the view.
C29_ResultOutlivesStreamedData ==
    /\ [](\A r \in RunIds :
              ResultsOf(r) # <<>> =>
                  LET e == Last(ResultsOf(r))
                  IN  /\ showExtractedMaterials(page) = PayloadList(e, "extracted_materials")
                      /\ showMatchedBmfs(page) = PayloadList(e, "matched_bmfs")
                      /\ showEcosystemConnections(page)
                             = PayloadList(e, "ecosystem_connections")
                      /\ sort(showEcosystemServices(page))
                             = sort(PayloadList(e, "ecosystem_services"))
                      /\ showEcosystemServiceDetails(page)
                             = (IF "ecosystem_service_details" \in DOMAIN e
                                THEN e.ecosystem_service_details ELSE EmptyMap))
    /\ [][\A r \in RunIds :
              (Applies(r) /\ ResultsOf(r) # <<>> /\ Recognized(Applied(r))
                   /\ Applied(r).event_type \in DataEvents) =>
                  /\ showExtractedMaterials(page') = showExtractedMaterials(page)
                  /\ showMatchedBmfs(page') = showMatchedBmfs(page)
                  /\ showEcosystemConnections(page') = showEcosystemConnections(page)
                  /\ showEcosystemServices(page') = showEcosystemServices(page)
                  /\ showEcosystemServiceDetails(page') = showEcosystemServiceDetails(page)
                  /\ bipartiteData' = bipartiteData]_vars

\* A chunk of matched flows was applied after a result event whose flows differ from it.
C29_Witness ==
    \E r \in RunIds :
        /\ Len(runs[r].handed) = 2
        /\ IsResult(runs[r].handed[1])
        /\ IsChunk(runs[r].handed[2])
        /\ page.matchedBmfs # <<>>
        /\ showMatchedBmfs(page) # page.matchedBmfs

\* C30: when an accepted submission has gone through and the page has stopped loading,
\* the stage is complete or error.
C30_FinishedRunIsCompleteOrError ==
    (requests > 0 /\ ~page.isLoading) => page.progress.stage \in {"complete", "error"}

\* Invocation r ends in the catch block on a rejected read().
ReadFails(r) == runs[r].pc = "read" /\ runs'[r].pc = "failed"

IsError(event) == "event_type" \in DOMAIN event /\ event.event_type = "error"

\* The page with the fields an error may set blanked out: the error, the stage and its
\* message, and the loading flag.
BesidesError(s) ==
    [s EXCEPT !.error = None, !.progress.stage = "", !.progress.message = "",
              !.isLoading = FALSE]

\* C31: a rejected read(), or an error event, that comes after events were applied
\* changes the error, the stage with its message and (the rejected read) the loading
\* flag, and nothing else of the page or of the view.
C31_ErrorKeepsTheRest ==
    [][\A r \in RunIds :
           (runs[r].handed # <<>>
                /\ (ReadFails(r) \/ (Applies(r) /\ IsError(Applied(r))))) =>
               /\ BesidesError(page') = BesidesError(page)
               /\ bipartiteData' = bipartiteData]_vars

-----------------------------------------------------------------------------
(* The page on the stream of a whole pipeline run *)

\* The events of a run that goes through the three stages: the announcement and the
\* materials of stage 1, the announcement of stage 2 and its chunks, any of them in
\* any order, the announcement and the connections of stage 3, complete and result.
PipelineEvents(materials, chunks, result) ==
    <<Payload["1"], materials, Payload["3"]>> \o chunks
        \o <<Payload["6"], Payload["7"], Payload["8"], result>>

\* A backend that sends the events of script, one whole line at a time, and closes.
PipelineServer(script) == [lines |-> {}, flush |-> "line", script |-> script]

\* A submission was accepted and its stream has been opened.
InitPipeline ==
    /\ page = ResetPage([InitialPage EXCEPT !.strategy = <<"s">>])
    /\ bipartiteData = None
    /\ hoveredLeftId = None
    /\ hoveredRightId = None
    /\ runs = [r \in 1..MaxRuns |-> IF r = 1 THEN Reading ELSE NoRun]
    /\ requests = 1
    /\ lastSubmit = "accepted"
    /\ appliedBy = {}
    /\ \E materials \in {Payload["0"], Payload["2"]},
          chunks \in SeqsUpTo(ChunkEvents, MaxLines),
          result \in {Payload["9"], Payload["R"]} :
           server = PipelineServer(PipelineEvents(materials, chunks, result))
    /\ clicked = None

\* The stream is delivered to its end: no read() stays pending for ever.
SpecPipeline == InitPipeline /\ [][NextScenario]_vars /\ WF_vars(NextScenario)

\* The stages of a run that goes well, in their order.
StageOrder == <<"idle", "stage1", "stage2", "stage3", "complete">>
StageRank(stage) == CHOOSE i \in DOMAIN StageOrder : StageOrder[i] = stage

\* The run has ended with the stage complete and the loading flag cleared.
EndedComplete ==
    runs[1].pc = "done" /\ page.progress.stage = "complete" /\ ~page.isLoading

\* C32: on the events of a whole pipeline run the stage is always one of idle, stage1,
\* stage2, stage3, complete and no step takes it to an earlier one; the stream is read
\* to its end, and then the stage is complete and the page is not loading.
C32_StageMovesForwardToComplete ==
    /\ [](page.progress.stage \in Range(StageOrder))
    /\ [][page'.progress.stage \in Range(StageOrder) =>
              StageRank(page'.progress.stage) >= StageRank(page.progress.stage)]_vars
    /\ [](runs[1].pc = "done" => EndedComplete)
    /\ <>EndedComplete

\* A run with two chunks, the second sent first, has ended.
C32_Witness ==
    /\ EndedComplete
    /\ Len(server.script) = 9
    /\ server.script[4] = Payload["5"]
    /\ server.script[5] = Payload["4"]
    /\ Len(page.matchedBmfs) > Len(Payload["5"].matched_bmfs)
    /\ page.result # None

====
